---- MODULE Spec2Model ----
(***************************************************************************)
(* Model of convert_image_to_dicom.py: create_dicom_from_image and main.   *)
(* A conversion is a process that walks through the statements of          *)
(* create_dicom_from_image; the filesystem and the UID generator are the   *)
(* only state shared between conversions.                                  *)
(***************************************************************************)
EXTENDS Integers, Sequences, FiniteSets, TLC

(* ---------------- bounds ---------------- *)
MaxDim == 2
NumProcs == 2

\* the conversions of a batch
Procs == 1..NumProcs
\* the conversion of a single run of the script or a single call
ApiProcs == {1}

(* ---------------- python values ---------------- *)
\* None and str values of the *_uid parameters; a UID string is its dotted
\* numeric components
PyNone == [none |-> TRUE, s |-> <<>>]
PyStr(s) == [none |-> FALSE, s |-> s]
\* truth value python's `or` tests: None and "" are falsy
Truthy(v) == ~v.none /\ v.s # <<>>

\* optional keyword argument: <<>> when the caller omits it
Opt(S) == {<<>>} \cup {<<v>> : v \in S}

(* ---------------- pydicom.uid ---------------- *)
SecondaryCaptureImageStorage == "1.2.840.10008.5.1.4.1.1.7"
CTImageStorage == "1.2.840.10008.5.1.4.1.1.2"
ExplicitVRLittleEndian == "1.2.840.10008.1.2.1"
ExplicitVRBigEndian == "1.2.840.10008.1.2.2"
ImplicitVRLittleEndian == "1.2.840.10008.1.2"
\* encoding each transfer syntax declares: <<is_little_endian, is_implicit_VR>>
SyntaxEncoding(ts) ==
  IF ts = ExplicitVRLittleEndian THEN <<TRUE, FALSE>>
  ELSE IF ts = ExplicitVRBigEndian THEN <<FALSE, FALSE>>
  ELSE IF ts = ImplicitVRLittleEndian THEN <<TRUE, TRUE>>
  ELSE <<TRUE, FALSE>>

\* generate_uid(): the n-th token of a generator that never repeats
UidRoot == 25
generate_uid(n) == PyStr(<<2, UidRoot, n>>)

(* ---------------- inputs ---------------- *)
\* what is found at img_path
ImageFile(h, w) == [kind |-> "image", h |-> h, w |-> w]
Missing == [kind |-> "missing", h |-> 0, w |-> 0]
Corrupt == [kind |-> "corrupt", h |-> 0, w |-> 0]
Truncated == [kind |-> "truncated", h |-> 1, w |-> 1]
InputFiles ==
  {Missing, Corrupt, Truncated} \cup {ImageFile(h, w) : h \in 0..MaxDim, w \in 0..MaxDim}
ZeroSized(f) == f.kind = "image" /\ (f.h = 0 \/ f.w = 0)

\* output paths, relative to the working directory, as path components
OutPaths == {<<"a.dcm">>, <<"d", "e", "b.dcm">>, <<"d", "e", "c.dcm">>}
Cwd == <<"work">>
Abspath(path) == Cwd \o path
Dirname(path) == SubSeq(path, 1, Len(path) - 1)
\* a file that is at <<"a.dcm">> before any conversion runs
OldContent == [file_meta |-> [MediaStorageSOPInstanceUID |-> PyStr(<<9, 9>>)], ds |-> [filename |-> <<"a.dcm">>]]

SuppliedUid == PyStr(<<1, 2, 3>>)
UidArgs == {PyNone, PyStr(<<>>), SuppliedUid}

\* keyword arguments a direct caller of create_dicom_from_image can pass
ApiCalls ==
  [img_path : InputFiles, out_path : OutPaths,
   patient_name : Opt({"DOE^John"}), patient_id : Opt({"12345"}),
   modality : Opt({"CR"}),
   study_uid : UidArgs, series_uid : UidArgs, sop_instance_uid : UidArgs,
   sop_class_uid : Opt({CTImageStorage}), make_monochrome : Opt(BOOLEAN)]

\* command lines main can be started with
CommandLines ==
  [input : InputFiles, output : OutPaths,
   patient : Opt({"DOE^John"}), id : Opt({"12345"}), modality : Opt({"CR"}),
   monochrome : BOOLEAN]

\* the calls of a batch of conversions of one image, with or without an
\* instance identifier
BatchCalls ==
  {[img_path |-> ImageFile(1, 2), out_path |-> o,
    patient_name |-> <<>>, patient_id |-> <<>>, modality |-> <<>>,
    study_uid |-> PyNone, series_uid |-> PyNone, sop_instance_uid |-> u,
    sop_class_uid |-> <<>>, make_monochrome |-> <<>>] :
     o \in OutPaths, u \in {PyNone, SuppliedUid}}

(* ---------------- state ---------------- *)
VARIABLES
  pc,        \* statement each conversion is at
  call,      \* how the conversion was started and the bound parameters (par)
  img,       \* PIL image
  photometric, samples_per_pixel,
  arr,       \* numpy array
  file_meta, ds,
  todo,      \* directories os.makedirs still has to mkdir
  err,       \* exception that ended the call and the statement that raised it
  issued,    \* tokens generate_uid returned to this call
  nextUid,   \* state of the token generator
  dirs,      \* existing directories
  files      \* content of each output path, <<>> when there is no file

vars == <<pc, call, img, photometric, samples_per_pixel, arr, file_meta, ds,
          todo, err, issued, nextUid, dirs, files>>
locals == <<img, photometric, samples_per_pixel, arr, file_meta, ds, todo, issued>>
fs == <<dirs, files>>

Unset == <<>>

\* the filesystem before any conversion: the working directory, and one
\* file left by an earlier run
InitDirs == {<<>>, Cwd}
InitFiles ==
  [f \in {Abspath(o) : o \in OutPaths} |->
     IF f = Abspath(<<"a.dcm">>) THEN <<OldContent>> ELSE <<>>]

Init ==
  /\ pc = [p \in Procs |-> "idle"]
  /\ call = [p \in Procs |-> Unset]
  /\ img = [p \in Procs |-> Unset]
  /\ photometric = [p \in Procs |-> ""]
  /\ samples_per_pixel = [p \in Procs |-> 0]
  /\ arr = [p \in Procs |-> Unset]
  /\ file_meta = [p \in Procs |-> Unset]
  /\ ds = [p \in Procs |-> Unset]
  /\ todo = [p \in Procs |-> <<>>]
  /\ err = [p \in Procs |-> Unset]
  /\ issued = [p \in Procs |-> {}]
  /\ nextUid = 0
  /\ dirs = InitDirs
  /\ files = InitFiles

(* ---------------- create_dicom_from_image: parameters ---------------- *)
Param(opt, default) == IF opt = <<>> THEN default ELSE opt[1]

\* signature defaults
Bind(k) ==
  [img_path |-> k.img_path, out_path |-> k.out_path,
   patient_name |-> Param(k.patient_name, "ANON^PATIENT"),
   patient_id |-> Param(k.patient_id, "0000"),
   modality |-> Param(k.modality, "OT"),
   study_uid |-> k.study_uid, series_uid |-> k.series_uid,
   sop_instance_uid |-> k.sop_instance_uid,
   sop_class_uid |-> Param(k.sop_class_uid, SecondaryCaptureImageStorage),
   make_monochrome |-> Param(k.make_monochrome, TRUE)]

\* argparse defaults of main
parse_args(argv) ==
  [input |-> argv.input, output |-> argv.output,
   patient |-> Param(argv.patient, "ANON^PATIENT"),
   id |-> Param(argv.id, "0000"),
   modality |-> Param(argv.modality, "DX"),
   monochrome |-> argv.monochrome]

\* fault: main leaves modality and make_monochrome to the callee's defaults
MainKwargs_partial(args) ==
  [img_path |-> args.input, out_path |-> args.output,
   patient_name |-> <<args.patient>>, patient_id |-> <<args.id>>,
   modality |-> <<>>,
   study_uid |-> PyNone, series_uid |-> PyNone, sop_instance_uid |-> PyNone,
   sop_class_uid |-> <<>>, make_monochrome |-> <<>>]

\* keyword arguments main passes to create_dicom_from_image
MainKwargs(args) ==
  [img_path |-> args.input, out_path |-> args.output,
   patient_name |-> <<args.patient>>, patient_id |-> <<args.id>>,
   modality |-> <<args.modality>>,
   study_uid |-> PyNone, series_uid |-> PyNone, sop_instance_uid |-> PyNone,
   sop_class_uid |-> <<>>, make_monochrome |-> <<args.monochrome>>]

Enter(p, entry, argv, k) ==
  /\ pc[p] = "idle"
  /\ pc' = [pc EXCEPT ![p] = "decode"]
  /\ call' = [call EXCEPT ![p] = [entry |-> entry, argv |-> argv, par |-> Bind(k)]]
  /\ UNCHANGED <<locals, err, nextUid, fs>>

\* a caller calls create_dicom_from_image(**k)
CallApi(p, K) == pc[p] = "idle" /\ \E k \in K : Enter(p, "api", Unset, k)

\* the script is started with a command line
CallMain(p) == pc[p] = "idle" /\ \E argv \in CommandLines : Enter(p, "main", argv, MainKwargs(parse_args(argv)))

Raise(p, e) ==
  /\ pc' = [pc EXCEPT ![p] = "failed"]
  /\ err' = [err EXCEPT ![p] = [exc |-> e, at |-> pc[p]]]

(* ---------------- PIL and numpy ---------------- *)
\* colour of the source picture at row r, column c (0-based)
SrcPixel(r, c) == <<(200 + 40 * r + 90 * c) % 256, (30 + 70 * r + 11 * c) % 256, (120 + 5 * r + 130 * c) % 256>>

\* Image.open: size is (width, height); pixels are kept row by row
Image_open(f) ==
  [size |-> <<f.w, f.h>>, mode |-> "RGB",
   px |-> [i \in 1..(f.h * f.w) |-> SrcPixel((i - 1) \div f.w, (i - 1) % f.w)]]

\* ITU-R 601-2 luma transform of convert('L')
Luma(rgb) == (rgb[1] * 299 + rgb[2] * 587 + rgb[3] * 114) \div 1000

convert(im, mode) ==
  IF mode = "L"
  THEN [size |-> im.size, mode |-> "L", px |-> [i \in 1..Len(im.px) |-> Luma(im.px[i])]]
  ELSE [size |-> im.size, mode |-> "RGB", px |-> im.px]

\* np.array(img): shape (height, width) for 'L', (height, width, 3) for 'RGB',
\* over a row-major buffer of 8-bit samples
np_array(im) ==
  IF im.mode = "L"
  THEN [shape |-> <<im.size[2], im.size[1]>>, data |-> im.px]
  ELSE [shape |-> <<im.size[2], im.size[1], 3>>,
        data |-> [i \in 1..(3 * Len(im.px)) |-> im.px[((i - 1) \div 3) + 1][((i - 1) % 3) + 1]]]

tobytes(a) == a.data

(* ---------------- create_dicom_from_image: statements ---------------- *)
\* img = Image.open(img_path); img = img.convert(...); photometric,
\* samples_per_pixel; arr = np.array(img) -- apart from the filesystem
DecodeImage(p) ==
  /\ pc[p] = "decode"
  /\ LET f == call[p].par.img_path
         mono == call[p].par.make_monochrome
         im == convert(Image_open(f), IF mono THEN "L" ELSE "RGB")
     IN
       \/ /\ f.kind = "missing"
          /\ Raise(p, "FileNotFoundError")
          /\ UNCHANGED <<img, photometric, samples_per_pixel, arr>>
       \/ /\ f.kind = "corrupt"
          /\ Raise(p, "UnidentifiedImageError")
          /\ UNCHANGED <<img, photometric, samples_per_pixel, arr>>
       \/ \* the pixel data is read by convert
          /\ f.kind = "truncated"
          /\ Raise(p, "OSError")
          /\ UNCHANGED <<img, photometric, samples_per_pixel, arr>>
       \/ \* a header that declares no pixels: the decoder either refuses the
          \* file or hands back an image without pixels
          /\ ZeroSized(f)
          /\ Raise(p, "UnidentifiedImageError")
          /\ UNCHANGED <<img, photometric, samples_per_pixel, arr>>
       \/ \* zero-sized pictures included: the code does not look at the size
          /\ f.kind = "image"
          /\ img' = [img EXCEPT ![p] = im]
          /\ photometric' = [photometric EXCEPT ![p] = IF mono THEN "MONOCHROME2" ELSE "RGB"]
          /\ samples_per_pixel' = [samples_per_pixel EXCEPT ![p] = IF mono THEN 1 ELSE 3]
          /\ arr' = [arr EXCEPT ![p] = np_array(im)]
          /\ pc' = [pc EXCEPT ![p] = "build"]
          /\ UNCHANGED err
  /\ UNCHANGED <<call, file_meta, ds, todo, issued, nextUid>>

\* fault: the output directory is created before the image is opened
Decode_makedirs_first(p) ==
  /\ DecodeImage(p)
  /\ dirs' = dirs \cup {SubSeq(Abspath(call[p].par.out_path), 1, n) :
                          n \in 0..(Len(Abspath(call[p].par.out_path)) - 1)}
  /\ UNCHANGED files

\* the decoding statements read, and never write
Decode(p) ==
  /\ DecodeImage(p)
  /\ UNCHANGED fs

\* fault: `v if v is not None else generate_uid()`
OrGenerate_none_only(v, n) == IF ~v.none THEN v ELSE generate_uid(n)

\* `v or generate_uid()` when the generator would return its n-th token
OrGenerate(v, n) == IF Truthy(v) THEN v ELSE generate_uid(n)
\* number of tokens `v or generate_uid()` takes from the generator
Takes(v) == IF Truthy(v) THEN 0 ELSE 1
Tokens(from, to) == {generate_uid(n) : n \in from..(to - 1)}

\* fault: the imported ExplicitVRBigEndian is the one assigned
MetaTransferSyntax_big == ExplicitVRBigEndian

\* transfer syntax written to the file meta header
MetaTransferSyntax == ExplicitVRLittleEndian

\* fault: the token is made once, as a default value of the parameter
MediaStorageSOPInstanceUID_default_once(sop_instance_uid, n) ==
  IF Truthy(sop_instance_uid) THEN sop_instance_uid ELSE generate_uid(0)

\* instance identifier of the file meta header
MediaStorageSOPInstanceUID(sop_instance_uid, n) == OrGenerate(sop_instance_uid, n)

\* file_meta = Dataset(); ... file_meta.ImplementationClassUID = generate_uid(),
\* when the generator is at its n-th token
FileMeta(par, n) ==
  [MediaStorageSOPClassUID |-> par.sop_class_uid,
   MediaStorageSOPInstanceUID |-> MediaStorageSOPInstanceUID(par.sop_instance_uid, n),
   TransferSyntaxUID |-> MetaTransferSyntax,
   ImplementationClassUID |-> generate_uid(n + Takes(par.sop_instance_uid))]

\* fault: the shape is read as (width, height), the order of img.size
RowsColumns_swapped(shape) == <<shape[2], shape[1]>>

\* ds.Rows, ds.Columns = arr.shape  /  ds.Rows, ds.Columns, _ = arr.shape
RowsColumns(shape) == <<shape[1], shape[2]>>

\* ds.is_little_endian, ds.is_implicit_VR
DatasetEncoding == <<TRUE, FALSE>>

\* fault: PlanarConfiguration is set outside the else branch
ImageAttributes_planar(spp, phot, shape) ==
  [SamplesPerPixel |-> IF spp = 1 THEN 1 ELSE 3, PhotometricInterpretation |-> phot,
   Rows |-> RowsColumns(shape)[1], Columns |-> RowsColumns(shape)[2],
   PlanarConfiguration |-> 0]

\* attributes that depend on samples_per_pixel
ImageAttributes(spp, phot, shape) ==
  IF spp = 1
  THEN [SamplesPerPixel |-> 1, PhotometricInterpretation |-> phot,
        Rows |-> RowsColumns(shape)[1], Columns |-> RowsColumns(shape)[2]]
  ELSE [SamplesPerPixel |-> 3, PhotometricInterpretation |-> phot,
        Rows |-> RowsColumns(shape)[1], Columns |-> RowsColumns(shape)[2],
        PlanarConfiguration |-> 0]

\* fault: the dataset takes its own `sop_instance_uid or generate_uid()`
DatasetSOPInstanceUID_regen(fm, sop_instance_uid, n) == OrGenerate(sop_instance_uid, n)

\* ds.SOPInstanceUID, given the file meta header, the parameter and the
\* generator's position
DatasetSOPInstanceUID(fm, sop_instance_uid, n) == fm.MediaStorageSOPInstanceUID

\* ds = FileDataset(...); attributes; PixelData; encoding flags, when the
\* generator is at its n-th token
FileDataset(par, fm, spp, phot, a, n) ==
  [filename |-> par.out_path,
   PatientName |-> par.patient_name,
   PatientID |-> par.patient_id,
   Modality |-> par.modality,
   StudyInstanceUID |-> OrGenerate(par.study_uid, n),
   SeriesInstanceUID |-> OrGenerate(par.series_uid, n + Takes(par.study_uid)),
   SOPClassUID |-> fm.MediaStorageSOPClassUID,
   SOPInstanceUID |->
     DatasetSOPInstanceUID(fm, par.sop_instance_uid, n + Takes(par.study_uid) + Takes(par.series_uid)),
   BitsAllocated |-> 8, BitsStored |-> 8, HighBit |-> 7,
   PixelRepresentation |-> 0,
   PixelData |-> tobytes(a),
   is_little_endian |-> DatasetEncoding[1],
   is_implicit_VR |-> DatasetEncoding[2]]
  @@ ImageAttributes(spp, phot, a.shape)

\* the statements between decoding and writing: file meta header, then dataset
Build(p) ==
  /\ pc[p] = "build"
  /\ LET par == call[p].par
         n1 == nextUid + Takes(par.sop_instance_uid) + 1
         n2 == n1 + Takes(par.study_uid) + Takes(par.series_uid)
         fm == FileMeta(par, nextUid)
     IN /\ file_meta' = [file_meta EXCEPT ![p] = fm]
        /\ ds' = [ds EXCEPT ![p] =
                    FileDataset(par, fm, samples_per_pixel[p], photometric[p], arr[p], n1)]
        /\ nextUid' = n2
        /\ issued' = [issued EXCEPT ![p] = @ \cup Tokens(nextUid, n2)]
  /\ pc' = [pc EXCEPT ![p] = "makedirs"]
  /\ UNCHANGED <<call, img, photometric, samples_per_pixel, arr, todo, err, fs>>

(* ---------------- writing ---------------- *)
\* fault: exist_ok left at its default
ExistOk_off == FALSE

\* exist_ok argument of os.makedirs
ExistOk == TRUE

\* the mkdir calls of os.makedirs(name): missing ancestors first
RECURSIVE MakedirsPlan(_, _)
MakedirsPlan(name, existing) ==
  LET head == Dirname(name) IN
    (IF Len(name) > 1 /\ head \notin existing THEN MakedirsPlan(head, existing) ELSE <<>>)
    \o <<name>>

\* os.makedirs(os.path.dirname(os.path.abspath(out_path)) or '.', exist_ok=True):
\* the os.path.exists tests
Makedirs(p) ==
  /\ pc[p] = "makedirs"
  /\ todo' = [todo EXCEPT ![p] = MakedirsPlan(Dirname(Abspath(call[p].par.out_path)), dirs)]
  /\ pc' = [pc EXCEPT ![p] = "mkdir"]
  /\ UNCHANGED <<call, img, photometric, samples_per_pixel, arr, file_meta, ds, err, issued, nextUid, fs>>

\* one mkdir of os.makedirs; only the last one reports a directory that is
\* already there, and only when exist_ok is off
Mkdir(p) ==
  /\ pc[p] = "mkdir"
  /\ LET d == Head(todo[p])
         last == Len(todo[p]) = 1
     IN IF Len(d) > 0 /\ Dirname(d) \notin dirs
        THEN Raise(p, "FileNotFoundError") /\ UNCHANGED <<todo, dirs>>
        ELSE IF d \in dirs /\ last /\ ~ExistOk
        THEN Raise(p, "FileExistsError") /\ UNCHANGED <<todo, dirs>>
        ELSE /\ dirs' = dirs \cup {d}
             /\ todo' = [todo EXCEPT ![p] = Tail(@)]
             /\ pc' = [pc EXCEPT ![p] = IF last THEN "save" ELSE "mkdir"]
             /\ UNCHANGED err
  /\ UNCHANGED <<call, img, photometric, samples_per_pixel, arr, file_meta, ds, issued, nextUid, files>>

\* ds.save_as(out_path, write_like_original=False); return out_path
SaveAs(p) ==
  /\ pc[p] = "save"
  /\ LET path == Abspath(call[p].par.out_path) IN
       IF Dirname(path) \notin dirs
       THEN Raise(p, "FileNotFoundError") /\ UNCHANGED files
       ELSE /\ files' = [files EXCEPT ![path] = <<[file_meta |-> file_meta[p], ds |-> ds[p]]>>]
            /\ pc' = [pc EXCEPT ![p] = "done"]
            /\ UNCHANGED err
  /\ UNCHANGED <<call, locals, nextUid, dirs>>

(* ---------------- specifications ---------------- *)
\* one conversion, started by a caller or from the command line, over every
\* combination of parameters
Next ==
  \E p \in ApiProcs :
    \/ CallApi(p, ApiCalls)
    \/ CallMain(p)
    \/ Decode(p)
    \/ Build(p)
    \/ Makedirs(p)
    \/ Mkdir(p)
    \/ SaveAs(p)

Spec == Init /\ [][Next]_vars

\* a batch of conversions of one image, in any order and interleaving
BatchNext ==
  \E p \in Procs :
    \/ CallApi(p, BatchCalls)
    \/ Decode(p)
    \/ Build(p)
    \/ Makedirs(p)
    \/ Mkdir(p)
    \/ SaveAs(p)

BatchSpec == Init /\ [][BatchNext]_vars

(* ---------------- properties ---------------- *)
\* the dataset of conversion p is complete
Built(p) == pc[p] \in {"makedirs", "mkdir", "save", "done"}
\* what conversion p hands to save_as
Record(p) == [file_meta |-> file_meta[p], ds |-> ds[p]]
\* files written by conversions
WrittenFiles == {f \in DOMAIN files : files[f] # <<>> /\ files[f] # <<OldContent>>}
\* error classes of the specification: exceptions of the decoding statements
\* are decode errors, exceptions of makedirs and save_as are write errors
ErrorKind(e) ==
  IF e.at = "decode" THEN "DecodeError"
  ELSE IF e.at \in {"mkdir", "save"} THEN "WriteError"
  ELSE e.exc
Generated(v) == ~Truthy(v)

\* C1: a successful conversion of a picture of height H and width W writes
\* Rows = H, Columns = W and a pixel buffer of
\* Rows * Columns * SamplesPerPixel * (BitsAllocated / 8) bytes: H*W bytes in
\* monochrome mode, H*W*3 bytes in RGB mode.
C1_RowsColumnsPixelData ==
  \A p \in Procs : pc[p] = "done" =>
    LET f == call[p].par.img_path
        d == ds[p]
    IN /\ d.Rows = f.h /\ d.Columns = f.w
       /\ Len(d.PixelData) = d.Rows * d.Columns * d.SamplesPerPixel * (d.BitsAllocated \div 8)
       /\ Len(d.PixelData) = f.h * f.w * (IF call[p].par.make_monochrome THEN 1 ELSE 3)
       /\ files[Abspath(call[p].par.out_path)] = <<Record(p)>>

C1_Witness ==
  /\ pc[1] = "done"
  /\ call[1].par.img_path = ImageFile(1, 2)
  /\ ~call[1].par.make_monochrome
  /\ ds[1].Rows = 1 /\ ds[1].Columns = 2 /\ Len(ds[1].PixelData) = 6

\* C2: the photometric attributes follow the monochrome flag alone:
\* MONOCHROME2 / 1 sample / no PlanarConfiguration when it is set,
\* RGB / 3 samples / PlanarConfiguration 0 when it is clear, in every dataset
\* built and every file written.
Photometric(d, mono) ==
  IF mono
  THEN /\ d.PhotometricInterpretation = "MONOCHROME2" /\ d.SamplesPerPixel = 1
       /\ "PlanarConfiguration" \notin DOMAIN d
  ELSE /\ d.PhotometricInterpretation = "RGB" /\ d.SamplesPerPixel = 3
       /\ "PlanarConfiguration" \in DOMAIN d /\ d.PlanarConfiguration = 0

C2_PhotometricByFlag ==
  /\ \A p \in Procs : Built(p) => Photometric(ds[p], call[p].par.make_monochrome)
  /\ \A f \in WrittenFiles : Photometric(files[f][1].ds, TRUE) \/ Photometric(files[f][1].ds, FALSE)

C2_Witness ==
  /\ pc[1] = "done" /\ call[1].par.make_monochrome
  /\ call[1].par.img_path = ImageFile(2, 1)
  /\ DOMAIN ds[1] \cap {"PlanarConfiguration", "SamplesPerPixel"} = {"SamplesPerPixel"}

\* C3: whenever a dataset is ready to be written, and in every file written,
\* its encoding flags are little-endian / explicit VR and agree with the
\* transfer syntax of the file meta header, Explicit VR Little Endian.
EncodingAgrees(r) ==
  /\ r.file_meta.TransferSyntaxUID = ExplicitVRLittleEndian
  /\ r.ds.is_little_endian = TRUE /\ r.ds.is_implicit_VR = FALSE
  /\ <<r.ds.is_little_endian, r.ds.is_implicit_VR>> = SyntaxEncoding(r.file_meta.TransferSyntaxUID)

C3_EncodingMatchesTransferSyntax ==
  /\ \A p \in Procs : Built(p) => EncodingAgrees(Record(p))
  /\ \A f \in WrittenFiles : EncodingAgrees(files[f][1])

C3_Witness ==
  /\ pc[1] = "done" /\ call[1].entry = "api"
  /\ call[1].par.sop_class_uid = CTImageStorage
  /\ Abspath(call[1].par.out_path) \in WrittenFiles

\* C4: the study, series and instance identifiers of the record are the
\* caller's value when it is present and non-empty, and otherwise a token
\* generated during this call; the implementation identifier, for which the
\* function has no parameter, is always a token generated during this call.
Identifier(supplied, value, p) ==
  IF Truthy(supplied) THEN value = supplied ELSE value \in issued[p]

C5_NoWriteBeforeDecode ==
  \A p \in ApiProcs :
    /\ (pc[p] # "idle" /\ pc[p] # "decode" /\ call[p].par.img_path.kind = "missing")
         => pc[p] = "failed" /\ ErrorKind(err[p]) = "DecodeError"
    /\ (pc[p] = "decode" \/ (pc[p] = "failed" /\ ErrorKind(err[p]) = "DecodeError"))
         => dirs = InitDirs /\ files = InitFiles

C5_Witness ==
  /\ pc[1] = "failed" /\ call[1].par.img_path = Missing
  /\ err[1].exc = "FileNotFoundError"
  /\ call[1].par.out_path = <<"a.dcm">>
  /\ files[Abspath(<<"a.dcm">>)] = <<OldContent>>

\* C6: a conversion started from the command line takes PatientName, PatientID
\* and Modality from the options, "ANON^PATIENT", "0000" and "DX" when they
\* are not given, and is monochrome exactly when --monochrome is given and
\* RGB with 3 samples otherwise.
C6_CommandLineDefaults ==
  \A p \in Procs : (Built(p) /\ call[p].entry = "main") =>
    LET a == call[p].argv
        d == ds[p]
    IN /\ d.PatientName = Param(a.patient, "ANON^PATIENT")
       /\ d.PatientID = Param(a.id, "0000")
       /\ d.Modality = Param(a.modality, "DX")
       /\ (d.PhotometricInterpretation = "MONOCHROME2") = a.monochrome
       /\ ~a.monochrome => d.PhotometricInterpretation = "RGB" /\ d.SamplesPerPixel = 3

C6_Witness ==
  /\ pc[1] = "done" /\ call[1].entry = "main"
  /\ call[1].argv.patient = <<>> /\ call[1].argv.id = <<>>
  /\ call[1].argv.modality = <<>> /\ ~call[1].argv.monochrome
  /\ ds[1].Modality = "DX" /\ ds[1].PhotometricInterpretation = "RGB"

\* C7: conversions to which no identifier was supplied carry pairwise
\* distinct instance identifiers, also when they convert the same input, and
\* so do the files they leave behind.
NoneSupplied(p) ==
  /\ Generated(call[p].par.study_uid) /\ Generated(call[p].par.series_uid)
  /\ Generated(call[p].par.sop_instance_uid)

C7_DistinctInstanceUIDs ==
  /\ \A p, q \in Procs :
       (p # q /\ Built(p) /\ Built(q) /\ NoneSupplied(p) /\ NoneSupplied(q))
         => ds[p].SOPInstanceUID # ds[q].SOPInstanceUID
  /\ (\A p \in Procs : pc[p] # "idle" => NoneSupplied(p))
       => \A f, g \in WrittenFiles :
            f # g => files[f][1].ds.SOPInstanceUID # files[g][1].ds.SOPInstanceUID

C7_Witness ==
  /\ pc[1] = "done" /\ pc[2] = "done"
  /\ call[1].par.img_path = call[2].par.img_path
  /\ NoneSupplied(1) /\ NoneSupplied(2)
  /\ call[1].par.out_path # call[2].par.out_path
  /\ {Abspath(call[1].par.out_path), Abspath(call[2].par.out_path)} \subseteq WrittenFiles

\* C8: no record with Rows = 0 or Columns = 0 is ever serialized: a zero-sized
\* picture makes the conversion fail with InvalidImageError before anything
\* is written.
C8_ZeroSizedNeverSerialized ==
  /\ \A f \in WrittenFiles : files[f][1].ds.Rows # 0 /\ files[f][1].ds.Columns # 0
  /\ \A p \in Procs : pc[p] = "done" => ~ZeroSized(call[p].par.img_path)

\* C9: a conversion whose output path differs from that of every other
\* conversion started so far never fails, is never stuck, and once done has
\* left at its output path exactly the record it built from its own
\* parameters, whatever the other conversions did in between, also when they
\* create the same missing parent directories.
OwnPath(p) ==
  \A q \in Procs \ {p} : pc[q] # "idle" => call[q].par.out_path # call[p].par.out_path

C9_ConcurrentConversionsIndependent ==
  \A p \in Procs : (pc[p] # "idle" /\ OwnPath(p)) =>
    /\ pc[p] # "failed"
    /\ pc[p] = "mkdir" => todo[p] # <<>>
    /\ pc[p] = "save" => Dirname(Abspath(call[p].par.out_path)) \in dirs
    /\ pc[p] = "done" =>
         /\ files[Abspath(call[p].par.out_path)] = <<Record(p)>>
         /\ ds[p].filename = call[p].par.out_path
         /\ ds[p].Rows = call[p].par.img_path.h /\ ds[p].Columns = call[p].par.img_path.w
         /\ Identifier(call[p].par.sop_instance_uid, ds[p].SOPInstanceUID, p)
         /\ {ds[p].StudyInstanceUID, ds[p].SeriesInstanceUID,
             file_meta[p].ImplementationClassUID} \subseteq issued[p]
         /\ \A q \in Procs \ {p} : issued[p] \cap issued[q] = {}

C9_Witness ==
  /\ call[1] # Unset /\ call[2] # Unset
  /\ call[1].par.out_path = <<"d", "e", "b.dcm">>
  /\ call[2].par.out_path = <<"d", "e", "c.dcm">>
  /\ pc[1] = "done" /\ files[Abspath(<<"d", "e", "b.dcm">>)] = <<Record(1)>>
  /\ pc[2] = "mkdir" /\ Len(todo[2]) = 2 /\ Head(todo[2]) \in dirs

\* C10: in every dataset built and every file written, SOPInstanceUID equals
\* the file meta header's MediaStorageSOPInstanceUID and SOPClassUID equals
\* its MediaStorageSOPClassUID, for a supplied and for a generated instance
\* identifier.
MetaAgrees(r) ==
  /\ r.ds.SOPInstanceUID = r.file_meta.MediaStorageSOPInstanceUID
  /\ r.ds.SOPClassUID = r.file_meta.MediaStorageSOPClassUID

C10_DatasetMatchesFileMeta ==
  /\ \A p \in Procs : Built(p) => MetaAgrees(Record(p))
  /\ \A f \in WrittenFiles : MetaAgrees(files[f][1])

C10_Witness ==
  /\ pc[1] = "done" /\ call[1].par.sop_instance_uid = PyNone
  /\ ds[1].SOPInstanceUID \in issued[1]
  /\ ds[1].SOPInstanceUID = file_meta[1].MediaStorageSOPInstanceUID
  /\ files[Abspath(call[1].par.out_path)] = <<Record(1)>>

====
